---- MODULE Spec2Model ----
(***************************************************************************)
(* dbrx: nested-transaction flattening and post-commit callbacks.          *)
(*                                                                         *)
(* The model follows the current version of the package (the listing that  *)
(* starts at README.md line 137): wrapper, outerTransaction,               *)
(* innerTransaction, AfterCommitEventReceiver and RunInTransaction.        *)
(* outerTransaction embeds *dbr.Tx, so Commit, Rollback and                *)
(* RollbackUnlessCommitted on an Outer handle are the promoted methods of  *)
(* dbr.Tx over database/sql: the first Commit or Rollback marks the        *)
(* transaction done whatever the driver answers, later ones return         *)
(* sql.ErrTxDone, and only a successful Commit emits the event             *)
(* "dbr.commit", which reaches the session's event receiver.               *)
(***************************************************************************)
EXTENDS Integers, Sequences, FiniteSets, TLC

MaxTx == 1          \* real transactions the driver is asked to open
MaxCallbacks == 2   \* callbacks held by the receiver
MaxCalls == 1       \* RunInTransaction invocations
MaxWith == 2        \* WITH clauses pending on one handle
MaxValues == 3      \* values given to a fragment builder

FErrs == {"e1", "e2"}        \* the error values f may return

VARIABLES
    txs,        \* the real transactions: state and the writes executed in each
    handles,    \* the outerTransaction / innerTransaction values created
    db,         \* committed rows, what a Select through the root Handle sees;
                \* a row is named by the handle that inserted it
    funcs,      \* funcs of the session's AfterCommitEventReceiver, when it has one
    receiver,   \* the session's EventReceiver
    log,        \* physical commits and callback invocations, in order
    ret,        \* the last call and what it returned
    calls,      \* every RunInTransaction invocation, running or finished
    stack,      \* the running RunInTransaction invocations, innermost last
    panicking,  \* a panic is unwinding the goroutine
    dialect,    \* Session.Dialect, which every statement and *dbr.Tx inherits
    withClauses, \* wrapper.withClauses, the pending WITH list of the root Handle
    stmt,       \* the statement decorator under construction
    out,        \* what the last Build, Exec or Load wrote, returned and submitted
    expr        \* the ValuesExpr, DoUpdateBuilder or UnionStmt under construction

\* the state of the statement-building layer
bvars == <<dialect, withClauses, stmt, out, expr>>

vars == <<txs, handles, db, funcs, receiver, log, ret, calls, stack, panicking,
          dialect, withClauses, stmt, out, expr>>

\* The root Handle (*wrapper) as the receiver of a call.  Transaction Handles
\* are Go struct values: kind tells outerTransaction from innerTransaction,
\* tx is the *dbr.Tx they hold, w says whether the field w is set.  origin
\* (the transaction of the Outer handle they derive from) is history, not a
\* field.  innerTransaction.Begin returns its receiver, so the Inner handles
\* of every nesting depth are one value.  withClauses is the field of that
\* name of a Transaction Handle; the root Handle is a pointer, and its field is
\* the variable withClauses.
Root == [kind |-> "root", tx |-> 0, w |-> TRUE, origin |-> 0, withClauses |-> <<>>]

NoRet == [op |-> "none", on |-> Root, err |-> "nil"]

----------------------------------------------------------------------------
(* AfterCommitEventReceiver *)

\* Event: the callbacks run for an event, in the order they run.
Event_anyEvent(eventName, fs) == fs

Event_reversed(eventName, fs) ==
    IF eventName # "dbr.commit" THEN <<>>
    ELSE [k \in 1..Len(fs) |-> fs[Len(fs) + 1 - k]]

Event(eventName, fs) ==
    IF eventName # "dbr.commit" THEN <<>> ELSE fs

\* Add
Add(fs, f) == Append(fs, f)

(* The session's EventReceiver.  kind "null" is a receiver with no Add      *)
(* method (dbr.NullEventReceiver), "acr" an *AfterCommitEventReceiver,      *)
(* "multi" a MultipleEventReceiver whose members are nil ("nil"), a         *)
(* receiver with no Add method ("null") or the AfterCommitEventReceiver     *)
(* ("acr"); a session is given at most one AfterCommitEventReceiver.        *)
NullReceiver == [kind |-> "null", members |-> <<>>]

ACReceiver == [kind |-> "acr", members |-> <<>>]

Multiple(members) == [kind |-> "multi", members |-> members]

Receivers ==
    {NullReceiver, ACReceiver,
     Multiple(<<"nil", "null">>), Multiple(<<"nil", "acr", "null">>)}

\* MultipleEventReceiver.Event: every non-nil member is handed the event
RECURSIVE MultipleEvent(_, _, _)
MultipleEvent(members, eventName, fs) ==
    IF members = <<>> THEN <<>>
    ELSE (IF Head(members) = "acr" THEN Event(eventName, fs) ELSE <<>>)
         \o MultipleEvent(Tail(members), eventName, fs)

\* EventReceiver.Event dispatched on the receiver r
ReceiverEvent(r, eventName, fs) ==
    IF r.kind = "acr" THEN Event(eventName, fs)
    ELSE IF r.kind = "multi" THEN MultipleEvent(r.members, eventName, fs)
    ELSE <<>>

\* MultipleEventReceiver.Add: fn is added to every member that has an Add
\* method; added tells whether there was one (the method panics if not)
RECURSIVE MultipleAdd(_, _, _)
MultipleAdd(members, fs, fn) ==
    IF members = <<>> THEN [funcs |-> fs, added |-> FALSE]
    ELSE LET rest == MultipleAdd(Tail(members),
                                 IF Head(members) = "acr" THEN Add(fs, fn) ELSE fs, fn)
         IN [rest EXCEPT !.added = @ \/ Head(members) = "acr"]

CbEntries(fs, i) == [k \in 1..Len(fs) |-> [ev |-> "cb", f |-> fs[k].f, tx |-> i]]

\* The receiver is handed an event raised by transaction i.
Emit(s, eventName, i) ==
    [s EXCEPT !.log = @ \o CbEntries(ReceiverEvent(receiver, eventName, funcs), i)]

----------------------------------------------------------------------------
(* The promoted methods of the embedded *dbr.Tx.  s is the record          *)
(* [txs, db, log]; ok is the driver's answer to COMMIT.                    *)

St == [txs |-> txs, db |-> db, log |-> log]

TxCommitErr(s, i, ok) ==
    IF s.txs[i].state # "open" THEN "ErrTxDone"
    ELSE IF ok THEN "nil" ELSE "CommitErr"

TxCommit(s, i, ok) ==
    IF s.txs[i].state # "open" THEN s
    ELSE IF ok
    THEN Emit([s EXCEPT !.txs[i].state = "committed",
                        !.db = @ \cup s.txs[i].writes,
                        !.log = Append(@, [ev |-> "commit", f |-> 0, tx |-> i])],
              "dbr.commit", i)
    ELSE [s EXCEPT !.txs[i].state = "commitfailed"]

TxRollbackErr(s, i) ==
    IF s.txs[i].state # "open" THEN "ErrTxDone" ELSE "nil"

TxRollback_afterCommit(s, i) ==
    IF s.txs[i].state \notin {"open", "committed"} THEN s
    ELSE Emit([s EXCEPT !.txs[i].state = "rolledback"], "dbr.rollback", i)

TxRollback(s, i) ==
    IF s.txs[i].state # "open" THEN s
    ELSE Emit([s EXCEPT !.txs[i].state = "rolledback"], "dbr.rollback", i)

\* RollbackUnlessCommitted: Rollback, with sql.ErrTxDone taken as success
TxRollbackUnlessCommitted_undoes(s, i) ==
    IF s.txs[i].state = "committed"
    THEN [s EXCEPT !.txs[i].state = "rolledback", !.db = @ \ s.txs[i].writes]
    ELSE TxRollback(s, i)

TxRollbackUnlessCommitted(s, i) == TxRollback(s, i)

----------------------------------------------------------------------------
(* innerTransaction: Commit, Rollback and RollbackUnlessCommitted *)

InnerCommit_closes(s, i, ok) == TxCommit(s, i, ok)

InnerCommit(s, i, ok) == s

InnerRollback(s, i) == s

InnerRollbackUnlessCommitted(s, i) == s

\* TX.Commit / Rollback / RollbackUnlessCommitted dispatched on the handle t
Commit(s, t, ok) ==
    IF t.kind = "inner" THEN InnerCommit(s, t.tx, ok) ELSE TxCommit(s, t.tx, ok)

CommitErr(s, t, ok) ==
    IF t.kind = "inner" THEN "nil" ELSE TxCommitErr(s, t.tx, ok)

Rollback(s, t) ==
    IF t.kind = "inner" THEN InnerRollback(s, t.tx) ELSE TxRollback(s, t.tx)

RollbackErr(s, t) ==
    IF t.kind = "inner" THEN "nil" ELSE TxRollbackErr(s, t.tx)

RollbackUnlessCommitted(s, t) ==
    IF t.kind = "inner" THEN InnerRollbackUnlessCommitted(s, t.tx)
    ELSE TxRollbackUnlessCommitted(s, t.tx)

SetSt(s) ==
    /\ txs' = s.txs
    /\ db' = s.db
    /\ log' = s.log

----------------------------------------------------------------------------
(* Begin *)

\* wrapper.Begin: outerTransaction{Tx: tx, w: w} for the transaction i that
\* the session opened
WrapperBegin(i) ==
    [kind |-> "outer", tx |-> i, w |-> TRUE, origin |-> i, withClauses |-> <<>>]

\* outerTransaction.Begin: innerTransaction{Tx: t.Tx}; no call to the session,
\* and the wrapper reference w is not passed on
OuterBegin_opensTx(t) ==
    [kind |-> "inner", tx |-> Len(txs) + 1, w |-> FALSE, origin |-> t.origin,
     withClauses |-> <<>>]

OuterBegin(t) ==
    [kind |-> "inner", tx |-> t.tx, w |-> FALSE, origin |-> t.origin,
     withClauses |-> <<>>]

\* innerTransaction.Begin: returns t itself
InnerBegin(t) == t

\* DML.Begin on target (Root or a handle); ok is the driver's answer to BEGIN.
BeginErr(target, ok) == IF target = Root /\ ~ok THEN "BeginErr" ELSE "nil"

NewHandle(target) ==
    IF target = Root THEN WrapperBegin(Len(txs) + 1)
    ELSE IF target.kind = "outer" THEN OuterBegin(target)
    ELSE InnerBegin(target)

\* the session is asked for a transaction while it has opened fewer than n
BeginCanWithin(target, n) ==
    /\ target \in {Root} \cup handles
    /\ target = Root => Len(txs) < n

BeginCan(target) == BeginCanWithin(target, MaxTx)

NewTx == [state |-> "open", writes |-> {}]

BeginTxs(target, ok) ==
    IF BeginErr(target, ok) = "nil" /\ NewHandle(target).tx > Len(txs)
    THEN Append(txs, NewTx) ELSE txs

BeginHandles(target, ok) ==
    IF BeginErr(target, ok) = "nil" THEN handles \cup {NewHandle(target)} ELSE handles

BeginRet(target, ok) ==
    [op |-> "Begin", on |-> target, err |-> BeginErr(target, ok)]

BeginWithin(target, ok, n) ==
    /\ ~panicking
    /\ BeginCanWithin(target, n)
    /\ target # Root => ok
    /\ txs' = BeginTxs(target, ok)
    /\ handles' = BeginHandles(target, ok)
    /\ ret' = BeginRet(target, ok)
    /\ UNCHANGED <<db, funcs, receiver, log, calls, stack, panicking>>
    /\ UNCHANGED bvars

Begin(target, ok) == BeginWithin(target, ok, MaxTx)

----------------------------------------------------------------------------
(* Statements executed through a Transaction Handle *)

\* t.InsertInto(...).Exec(): the statement is built on and run by t.Tx.
\* Each handle inserts one row of its own.
Write(t) ==
    /\ ~panicking
    /\ t \in handles
    /\ t \notin txs[t.tx].writes
    /\ IF txs[t.tx].state = "open"
       THEN /\ txs' = [txs EXCEPT ![t.tx].writes = @ \cup {t}]
            /\ ret' = [NoRet EXCEPT !.op = "Write", !.on = t]
       ELSE /\ UNCHANGED txs
            /\ ret' = [NoRet EXCEPT !.op = "Write", !.on = t, !.err = "ErrTxDone"]
    /\ UNCHANGED <<handles, db, funcs, receiver, log, calls, stack, panicking>>
    /\ UNCHANGED bvars

----------------------------------------------------------------------------
(* Commit, Rollback, RollbackUnlessCommitted called by the application *)

DoCommit(t, ok) ==
    /\ ~panicking
    /\ t \in handles
    /\ SetSt(Commit(St, t, ok))
    /\ ret' = [NoRet EXCEPT !.op = "Commit", !.on = t, !.err = CommitErr(St, t, ok)]
    /\ UNCHANGED <<handles, funcs, receiver, calls, stack, panicking>>
    /\ UNCHANGED bvars

DoRollback(t) ==
    /\ ~panicking
    /\ t \in handles
    /\ SetSt(Rollback(St, t))
    /\ ret' = [NoRet EXCEPT !.op = "Rollback", !.on = t, !.err = RollbackErr(St, t)]
    /\ UNCHANGED <<handles, funcs, receiver, calls, stack, panicking>>
    /\ UNCHANGED bvars

DoRollbackUnlessCommitted(t) ==
    /\ ~panicking
    /\ t \in handles
    /\ SetSt(RollbackUnlessCommitted(St, t))
    /\ ret' = [NoRet EXCEPT !.op = "RollbackUnlessCommitted", !.on = t]
    /\ UNCHANGED <<handles, funcs, receiver, calls, stack, panicking>>
    /\ UNCHANGED bvars

----------------------------------------------------------------------------
(* RunAfterCommit *)

\* wrapper.RunAfterCommit: the type assertion w.Session.EventReceiver.(funcAdder)
\* holds of an AfterCommitEventReceiver and of a MultipleEventReceiver
IsFuncAdder(r) == r.kind \in {"acr", "multi"}

\* fa.Add(f): the funcs afterwards, and whether Add returned
FuncAdderAdd(r, fs, f) ==
    IF r.kind = "acr" THEN [funcs |-> Add(fs, f), added |-> TRUE]
    ELSE MultipleAdd(r.members, fs, f)

WrapperRunAfterCommitErr ==
    IF ~IsFuncAdder(receiver) THEN "NoAfterCommitEventReceiver"
    ELSE IF ~FuncAdderAdd(receiver, funcs, [f |-> 0, via |-> "root"]).added THEN "panic"
    ELSE "nil"

\* outerTransaction.RunAfterCommit / innerTransaction.RunAfterCommit call
\* t.w.RunAfterCommit(f); with a nil w the call dereferences a nil pointer.
RunAfterCommitErr(target) ==
    IF ~target.w THEN "panic"
    ELSE WrapperRunAfterCommitErr

\* The callbacks are distinct closures, named by the order of registration.
RunAfterCommit(target) ==
    /\ ~panicking
    /\ target \in {Root} \cup handles
    /\ Len(funcs) < MaxCallbacks
    /\ LET err == RunAfterCommitErr(target) IN
       /\ funcs' = IF err = "nil"
                   THEN FuncAdderAdd(receiver, funcs,
                                     [f |-> Len(funcs) + 1, via |-> target.kind]).funcs
                   ELSE funcs
       /\ panicking' = (err = "panic")
       /\ ret' = [NoRet EXCEPT !.op = "RunAfterCommit", !.on = target, !.err = err]
    /\ UNCHANGED <<txs, handles, db, receiver, log, calls, stack>>
    /\ UNCHANGED bvars

----------------------------------------------------------------------------
(* RunInTransaction(dml, f) *)

\* if err != nil { return err }: f runs only when Begin succeeded
RunInTransactionEnters_always(err) == TRUE

RunInTransactionEnters(err) == err = "nil"

\* What runs once f has finished with fRet ("nil", an error, or "panic"):
\* tx.Commit() when f returned nil, then the deferred
\* tx.RollbackUnlessCommitted() on every path.
RunInTransactionExit_noDefer(s, h, fRet, ok) ==
    IF fRet # "nil" THEN [s |-> s, commit |-> "notIssued"]
    ELSE [s |-> Commit(s, h, ok), commit |-> CommitErr(s, h, ok)]

RunInTransactionExit_noCommit(s, h, fRet, ok) ==
    [s |-> RollbackUnlessCommitted(s, h), commit |-> "notIssued"]

RunInTransactionExit(s, h, fRet, ok) ==
    IF fRet # "nil"
    THEN [s |-> RollbackUnlessCommitted(s, h), commit |-> "notIssued"]
    ELSE [s |-> RollbackUnlessCommitted(Commit(s, h, ok), h),
          commit |-> CommitErr(s, h, ok)]

\* The value RunInTransaction returns: f's error, else nil (tx.Commit()'s
\* result is dropped).
RunInTransactionResult_nil(fRet, commitErr) == "nil"

RunInTransactionResult(fRet, commitErr) ==
    IF fRet # "nil" THEN fRet ELSE "nil"

NewCall(target, ok) ==
    [target |-> target,
     h |-> IF BeginErr(target, ok) = "nil" THEN NewHandle(target) ELSE Root,
     tx |-> IF BeginErr(target, ok) = "nil" THEN NewHandle(target).tx ELSE 0,
     beginErr |-> BeginErr(target, ok),
     status |-> IF RunInTransactionEnters(BeginErr(target, ok)) THEN "active" ELSE "returned",
     fInvoked |-> RunInTransactionEnters(BeginErr(target, ok)),
     fRet |-> "none", ok |-> TRUE, txAtExit |-> "none", commit |-> "notIssued",
     result |-> IF RunInTransactionEnters(BeginErr(target, ok)) THEN "none"
                ELSE BeginErr(target, ok)]

\* RunInTransaction(dml, f) up to the call to f, while fewer than n
\* invocations were made
RunInTransactionCallWithin(target, ok, n) ==
    /\ ~panicking
    /\ Len(calls) < n
    /\ BeginCan(target)
    /\ target # Root => ok
    /\ txs' = BeginTxs(target, ok)
    /\ handles' = BeginHandles(target, ok)
    /\ calls' = Append(calls, NewCall(target, ok))
    /\ stack' = IF NewCall(target, ok).fInvoked THEN Append(stack, Len(calls) + 1) ELSE stack
    /\ ret' = [BeginRet(target, ok) EXCEPT !.op = "RunInTransaction"]
    /\ UNCHANGED <<db, funcs, receiver, log, panicking>>
    /\ UNCHANGED bvars

RunInTransactionCall(target, ok) == RunInTransactionCallWithin(target, ok, MaxCalls)

Top == stack[Len(stack)]

Finish(fRet, ok, status) ==
    LET c == calls[Top]
        x == RunInTransactionExit(St, c.h, fRet, ok)
    IN /\ SetSt(x.s)
       /\ calls' = [calls EXCEPT ![Top] =
              [c EXCEPT !.status = status, !.fRet = fRet, !.ok = ok,
                        !.txAtExit = txs[c.tx].state, !.commit = x.commit,
                        !.result = IF status = "panicked" THEN "panic"
                                   ELSE RunInTransactionResult(fRet, x.commit)]]
       /\ stack' = SubSeq(stack, 1, Len(stack) - 1)

\* f returns fRet; ok is the driver's answer to the COMMIT that may follow
RunInTransactionReturn(fRet, ok) ==
    /\ ~panicking
    /\ stack # <<>>
    /\ fRet # "nil" => ok
    /\ Finish(fRet, ok, "returned")
    /\ ret' = [NoRet EXCEPT !.op = "RunInTransactionReturn"]
    /\ UNCHANGED <<handles, funcs, receiver, panicking>>
    /\ UNCHANGED bvars

\* f panics by itself
FPanic ==
    /\ ~panicking
    /\ stack # <<>>
    /\ panicking' = TRUE
    /\ ret' = [NoRet EXCEPT !.op = "panic", !.err = "panic"]
    /\ UNCHANGED <<txs, handles, db, funcs, receiver, log, calls, stack>>
    /\ UNCHANGED bvars

\* a panic leaves the innermost running RunInTransaction: its defer runs
RunInTransactionUnwind ==
    /\ panicking
    /\ stack # <<>>
    /\ Finish("panic", TRUE, "panicked")
    /\ ret' = [NoRet EXCEPT !.op = "RunInTransactionUnwind", !.err = "panic"]
    /\ UNCHANGED <<handles, funcs, receiver, panicking>>
    /\ UNCHANGED bvars

----------------------------------------------------------------------------
(* Dialects.  A dbr dialect is a value; the dbrx dialect adapter            *)
(* dialect{d} embeds the dialect it wraps.                                  *)

PostgreSQL == [name |-> "postgres", Dialect |-> <<>>]

MySQL == [name |-> "mysql", Dialect |-> <<>>]

SQLite3 == [name |-> "sqlite3", Dialect |-> <<>>]

\* dialect{d}
DbrxDialect(d) == [name |-> "dbrx", Dialect |-> <<d>>]

\* newWrapper: the session's dialect is wrapped unless it already is
NewWrapperDialect(d) == IF d.name = "dbrx" THEN d ELSE DbrxDialect(d)

isPostgres_noUnwrap(d) == d = PostgreSQL

isPostgres(d) ==
    IF d.name = "dbrx" THEN d.Dialect[1] = PostgreSQL ELSE d = PostgreSQL

\* dialect.QuoteIdent delegates to the wrapped dialect; dbr quotes with a
\* backtick for MySQL and a double quote otherwise (the pieces "bq" and "dq")
RECURSIVE QuoteIdent(_, _)
QuoteIdent(d, n) ==
    IF d.name = "dbrx" THEN QuoteIdent(d.Dialect[1], n)
    ELSE IF d.name = "mysql" THEN <<"bq", n, "bq">>
    ELSE <<"dq", n, "dq">>

----------------------------------------------------------------------------
(* dbr.Buffer and dbr.Builder.  A string is the sequence of its pieces; a   *)
(* placeholder is the piece "?".                                            *)

NewBuffer == [sql |-> <<>>, value |-> <<>>]

WriteString(buf, str) == [buf EXCEPT !.sql = @ \o str]

WriteValue(buf, v) == [buf EXCEPT !.value = @ \o v]

BuildOk(buf) == [buf |-> buf, err |-> "nil"]

\* dbr.Expr(query, value...): Build writes the query and its values
Expr(query, value) ==
    [kind |-> "expr", query |-> query, value |-> value, inner |-> <<>>]

\* a builder whose Build fails after writing query (a dbr statement that is
\* missing a table or a column fails before it writes anything)
FailingBuilder(query) ==
    [kind |-> "fail", query |-> query, value |-> <<>>, inner |-> <<>>]

\* Parens
Parens(b) == [kind |-> "parens", query |-> <<>>, value |-> <<>>, inner |-> <<b>>]

RECURSIVE Build(_, _, _)
\* parensBuilder.Build
ParensBuild_swallows(b, d, buf) ==
    BuildOk(WriteString(Build(b.inner[1], d, WriteString(buf, <<"(">>)).buf, <<")">>))

ParensBuild(b, d, buf) ==
    LET r == Build(b.inner[1], d, WriteString(buf, <<"(">>))
    IN IF r.err # "nil" THEN r
       ELSE BuildOk(WriteString(r.buf, <<")">>))

\* Builder.Build dispatched on the builder b
Build(b, d, buf) ==
    IF b.kind = "parens" THEN ParensBuild(b, d, buf)
    ELSE IF b.kind = "fail"
    THEN [buf |-> WriteString(buf, b.query), err |-> "BuildErr"]
    ELSE BuildOk(WriteValue(WriteString(buf, b.query), b.value))

\* withClause{name, builder}
WithClause(name, builder) == [name |-> name, builder |-> builder]

\* withClauses.write: the loop from clause i on
RECURSIVE writeFrom(_, _, _, _)
writeFrom(ws, i, d, buf) ==
    IF i > Len(ws) THEN BuildOk(buf)
    ELSE LET sep == IF i > 1 THEN WriteString(buf, <<", ">>) ELSE buf
             r == Build(ws[i].builder, d,
                        WriteString(WriteString(sep, <<ws[i].name>>), <<" AS (">>))
         IN IF r.err # "nil" THEN r
            ELSE writeFrom(ws, i + 1, d, WriteString(r.buf, <<") ">>))

write_reversed(ws, d, buf) ==
    IF Len(ws) = 0 THEN BuildOk(buf)
    ELSE writeFrom([k \in 1..Len(ws) |-> ws[Len(ws) + 1 - k]], 1, d,
                   WriteString(buf, <<"WITH ">>))

write(ws, d, buf) ==
    IF Len(ws) = 0 THEN BuildOk(buf)
    ELSE writeFrom(ws, 1, d, WriteString(buf, <<"WITH ">>))

----------------------------------------------------------------------------
(* Statement decorators: SelectStmt, UpdateStmt, InsertStmt.  base and      *)
(* ReturnColumn stand for the embedded dbr statement, dml is the handle     *)
(* that created the decorator.                                              *)

\* the conflict target b.name, an interface{}: nil, a string or a []string
NilName == [type |-> "nil", s |-> "", list |-> <<>>]

StringName(n) == [type |-> "string", s |-> n, list |-> <<>>]

ListName(l) == [type |-> "strings", s |-> "", list |-> l]

NewStmt(kind, base, ws, dml) ==
    [kind |-> kind, base |-> base, ReturnColumn |-> <<>>, withClauses |-> ws,
     dml |-> dml, onConflict |-> FALSE, name |-> NilName, do |-> <<>>]

NoStmt == NewStmt("none", Expr(<<>>, <<>>), <<>>, Root)

\* out: the call, its arguments, the SQL and values it rendered, the error it
\* returned, what it submitted to the driver and the sql.Result it returned
NoOut == [op |-> "none", args |-> <<>>, sql |-> <<>>, value |-> <<>>, err |-> "nil",
          sent |-> <<>>, result |-> "none"]

\* no fragment builder under construction
NoExpr == [kind |-> "none"]

\* the pending WITH list a call on target sees
Pending(target) == IF target = Root THEN withClauses ELSE target.withClauses

\* the k-th clause declared on a list is named WithNames[k]
WithNames == <<"v1", "v2", "v3", "v4">>

\* With: the root Handle appends to its own list and returns itself, a
\* Transaction Handle appends to the copy it was called on and returns the copy
WithHandle(target, c) ==
    IF target = Root THEN Root
    ELSE [target EXCEPT !.withClauses = Append(@, c)]

With(target, builder) ==
    /\ target \in {Root} \cup handles
    /\ Len(Pending(target)) < MaxWith
    /\ LET c == WithClause(WithNames[Len(Pending(target)) + 1], builder) IN
       /\ withClauses' = IF target = Root THEN Append(withClauses, c) ELSE withClauses
       /\ handles' = IF target = Root THEN handles
                     ELSE handles \cup {WithHandle(target, c)}
    /\ ret' = [NoRet EXCEPT !.op = "With", !.on = target]
    /\ UNCHANGED <<txs, db, funcs, receiver, log, calls, stack, panicking>>
    /\ out' = NoOut
    /\ UNCHANGED <<dialect, stmt, expr>>

\* Select and Update: the statement takes the pending list of the handle; only
\* the root Handle then clears its list
StmtWith(target, kind, base) ==
    /\ target \in {Root} \cup handles
    /\ stmt' = NewStmt(kind, base, Pending(target), target)
    /\ withClauses' = IF target = Root THEN <<>> ELSE withClauses
    /\ ret' = [NoRet EXCEPT !.op = kind, !.on = target]
    /\ UNCHANGED <<txs, handles, db, funcs, receiver, log, calls, stack, panicking>>
    /\ out' = NoOut
    /\ UNCHANGED <<dialect, expr>>

Select(target, base) == StmtWith(target, "Select", base)

Update(target, base) == StmtWith(target, "Update", base)

----------------------------------------------------------------------------
Init ==
    /\ txs = <<>>
    /\ handles = {}
    /\ db = {}
    /\ funcs = <<>>
    /\ receiver \in Receivers
    /\ log = <<>>
    /\ ret = NoRet
    /\ calls = <<>>
    /\ stack = <<>>
    /\ panicking = FALSE
    /\ dialect = DbrxDialect(PostgreSQL)
    /\ withClauses = <<>>
    /\ stmt = NoStmt
    /\ out = NoOut
    /\ expr = NoExpr

Targets == {Root} \cup handles

\* Transaction Handles used directly: Begin, statements, Commit and Rollback
NextNest ==
    \/ \E target \in Targets, ok \in BOOLEAN : Begin(target, ok)
    \/ \E t \in handles : Write(t)
    \/ \E t \in handles, ok \in BOOLEAN : DoCommit(t, ok)
    \/ \E t \in handles : DoRollback(t)
    \/ \E t \in handles : DoRollbackUnlessCommitted(t)

SpecNest == Init /\ [][NextNest]_vars

\* some f is running
InF == stack # <<>>

\* Units of work run by RunInTransaction: every real transaction is opened by
\* a RunInTransaction call, f uses the handle it is passed and those nested in it
NextRun ==
    \/ \E target \in Targets, ok \in BOOLEAN : RunInTransactionCall(target, ok)
    \/ InF /\ \E t \in handles : Begin(t, TRUE)
    \/ InF /\ \E t \in handles : Write(t)
    \/ InF /\ \E t \in handles, ok \in BOOLEAN : DoCommit(t, ok)
    \/ InF /\ \E t \in handles : DoRollback(t)
    \/ InF /\ \E t \in handles : DoRollbackUnlessCommitted(t)
    \/ \E fRet \in {"nil"} \cup FErrs, ok \in BOOLEAN : RunInTransactionReturn(fRet, ok)
    \/ FPanic
    \/ RunInTransactionUnwind

\* no callback is registered in these behaviours, and every receiver then acts
\* alike: the session is given the AfterCommitEventReceiver
InitRun == Init /\ receiver = ACReceiver

SpecRun == InitRun /\ [][NextRun]_vars

\* Post-commit callbacks with Transaction Handles used directly
NextCb ==
    \/ \E target \in Targets : RunAfterCommit(target)
    \/ \E target \in Targets, ok \in BOOLEAN : Begin(target, ok)
    \/ \E t \in handles, ok \in BOOLEAN : DoCommit(t, ok)
    \/ \E t \in handles : DoRollback(t)
    \/ \E t \in handles : DoRollbackUnlessCommitted(t)

SpecCb == Init /\ [][NextCb]_vars

\* Post-commit callbacks in units of work run by RunInTransaction: f registers
\* callbacks, nests handles, may roll back, and returns or panics
NextRunCb ==
    \/ \E target \in Targets : RunAfterCommit(target)
    \/ \E target \in Targets, ok \in BOOLEAN : RunInTransactionCall(target, ok)
    \/ InF /\ \E t \in handles : Begin(t, TRUE)
    \/ InF /\ \E t \in handles : DoRollback(t)
    \/ \E fRet \in {"nil"} \cup FErrs, ok \in BOOLEAN : RunInTransactionReturn(fRet, ok)
    \/ RunInTransactionUnwind

SpecRunCb == Init /\ [][NextRunCb]_vars

MaxSessionTx == 2   \* real transactions of one session over its lifetime

\* The lifetime of a root Handle: one transaction after another, or beside
\* another, each begun on the root Handle, with callbacks registered
NextSession ==
    \/ \E ok \in BOOLEAN : BeginWithin(Root, ok, MaxSessionTx)
    \/ \E target \in Targets : RunAfterCommit(target)
    \/ \E t \in handles, ok \in BOOLEAN : DoCommit(t, ok)
    \/ \E t \in handles : DoRollback(t)

SpecSession == Init /\ [][NextSession]_vars

MaxNested == 2      \* RunInTransaction invocations in one unit of work

\* A unit of work whose f calls a helper that calls RunInTransaction on the
\* handle f was given; every f writes through the handle it was given
NextNested ==
    \/ stack = <<>> /\ \E ok \in BOOLEAN : RunInTransactionCallWithin(Root, ok, MaxNested)
    \/ InF /\ RunInTransactionCallWithin(calls[Top].h, TRUE, MaxNested)
    \/ InF /\ Write(calls[Top].h)
    \/ \E fRet \in {"nil"} \cup FErrs, ok \in BOOLEAN : RunInTransactionReturn(fRet, ok)

SpecNested == Init /\ [][NextNested]_vars

----------------------------------------------------------------------------
(* Rendering and running a decorator *)

\* the identifiers names quoted and joined by commas, from the i-th on
RECURSIVE QuotedFrom(_, _, _)
QuotedFrom(d, names, i) ==
    IF i > Len(names) THEN <<>>
    ELSE (IF i > 1 THEN <<",">> ELSE <<>>) \o QuoteIdent(d, names[i])
         \o QuotedFrom(d, names, i + 1)

\* the embedded dbr statement's Build: its own SQL and values, then the
\* RETURNING columns it was given
BaseBuild(b, d, buf) ==
    LET r == Build(b.base, d, buf)
    IN IF r.err # "nil" \/ b.ReturnColumn = <<>> THEN r
       ELSE BuildOk(WriteString(r.buf, <<" RETURNING ">> \o QuotedFrom(d, b.ReturnColumn, 1)))

\* SelectStmt.Build and UpdateStmt.Build
WithStmtBuild(b, d, buf) ==
    LET r == write(b.withClauses, d, buf)
    IN IF r.err # "nil" THEN r ELSE BaseBuild(b, d, r.buf)

\* InsertStmt.Build: b.name != "" && b.name != nil
HasName(name) == name # StringName("") /\ name # NilName

Names(name) == IF name.type = "string" THEN <<name.s>> ELSE name.list

InsertStmtBuild(b, d, buf) ==
    LET r == BaseBuild(b, d, buf)
        conflict == WriteString(r.buf, <<" ON CONFLICT">>)
        target == IF HasName(b.name)
                  THEN WriteString(conflict, <<" (">> \o QuotedFrom(d, Names(b.name), 1) \o <<")">>)
                  ELSE conflict
    IN IF r.err # "nil" THEN r
       ELSE IF ~b.onConflict THEN BuildOk(r.buf)
       ELSE BuildOk(Build(b.do[1], d, WriteString(target, <<" DO ">>)).buf)

\* Build dispatched on the decorator b
StmtBuildResult(b, d, buf) ==
    IF b.kind = "Insert" THEN InsertStmtBuild(b, d, buf) ELSE WithStmtBuild(b, d, buf)

\* dbr.InterpolateForDialect: every placeholder is replaced by the literal of
\* its value; the counts must agree
EncodeValue(v) == <<"'", v, "'">>

RECURSIVE InterpolateFrom(_, _, _)
InterpolateFrom(query, value, i) ==
    IF i > Len(query) THEN <<>>
    ELSE IF query[i] = "?"
    THEN EncodeValue(Head(value)) \o InterpolateFrom(query, Tail(value), i + 1)
    ELSE <<query[i]>> \o InterpolateFrom(query, value, i + 1)

Interpolate(buf) ==
    IF Cardinality({i \in 1..Len(buf.sql) : buf.sql[i] = "?"}) # Len(buf.value)
    THEN [str |-> <<>>, err |-> "ErrPlaceholderCount"]
    ELSE [str |-> InterpolateFrom(buf.sql, buf.value, 1), err |-> "nil"]

\* what a run hands to the driver: by tells the base builder from a rendered
\* string re-submitted through the handle dml, tx is the transaction that
\* executes it (0: the session)
Sent(by, dml, sql, value) ==
    [by |-> by, dml |-> dml, tx |-> dml.tx, sql |-> sql, value |-> value]

Ran(op, err, sent, result) ==
    [NoOut EXCEPT !.op = op, !.err = err, !.sent = sent, !.result = result]

\* the embedded statement runs itself (Exec, Load): it builds, then submits
BaseRun(op, b, ok, result) ==
    LET r == BaseBuild(b, dialect, NewBuffer)
    IN IF r.err # "nil" THEN Ran(op, r.err, <<>>, "none")
       ELSE Ran(op, IF ok THEN "nil" ELSE "DriverErr",
                <<Sent("base", b.dml, r.buf.sql, r.buf.value)>>,
                IF ok THEN result ELSE "none")

\* interpolate / interpolateWithClause, then dml.XBySql(str).Exec or Load
RenderedRun_viaSession(op, b, ok, by) ==
    LET r == StmtBuildResult(b, dialect, NewBuffer)
        i == Interpolate(r.buf)
    IN IF r.err # "nil" THEN Ran(op, r.err, <<>>, "none")
       ELSE IF i.err # "nil" THEN Ran(op, i.err, <<>>, "none")
       ELSE Ran(op, IF ok THEN "nil" ELSE "DriverErr",
                <<Sent(by, Root, i.str, <<>>)>>,
                IF ok THEN "driver" ELSE "none")

RenderedRun(op, b, ok, by) ==
    LET r == StmtBuildResult(b, dialect, NewBuffer)
        i == Interpolate(r.buf)
    IN IF r.err # "nil" THEN Ran(op, r.err, <<>>, "none")
       ELSE IF i.err # "nil" THEN Ran(op, i.err, <<>>, "none")
       ELSE Ran(op, IF ok THEN "nil" ELSE "DriverErr",
                <<Sent(by, b.dml, i.str, <<>>)>>,
                IF ok THEN "driver" ELSE "none")

\* InsertStmt.Exec / ExecContext
InsertStmtExec(b, ok) ==
    IF isPostgres(dialect) /\ Len(b.ReturnColumn) = 1
    THEN BaseRun("Exec", b, ok, "sqlResult")
    ELSE IF ~b.onConflict THEN BaseRun("Exec", b, ok, "driver")
    ELSE RenderedRun("Exec", b, ok, "InsertBySql")

\* UpdateStmt.Exec / ExecContext
UpdateStmtExec(b, ok) ==
    IF Len(b.withClauses) = 0 THEN BaseRun("Exec", b, ok, "driver")
    ELSE RenderedRun("Exec", b, ok, "UpdateBySql")

\* SelectStmt.Load
SelectStmtLoad(b, ok) ==
    IF Len(b.withClauses) = 0 THEN BaseRun("Load", b, ok, "rows")
    ELSE RenderedRun("Load", b, ok, "SelectBySql")

\* InsertInto: the decorator takes no WITH clause and leaves the pending list
InsertInto(target, base) ==
    /\ target \in {Root} \cup handles
    /\ stmt' = NewStmt("Insert", base, <<>>, target)
    /\ ret' = [NoRet EXCEPT !.op = "InsertInto", !.on = target]
    /\ UNCHANGED <<txs, handles, db, funcs, receiver, log, calls, stack, panicking>>
    /\ out' = NoOut
    /\ UNCHANGED <<dialect, withClauses, expr>>

\* InsertStmt.OnConflict
OnConflict(name, do) ==
    /\ stmt.kind = "Insert"
    /\ stmt' = [stmt EXCEPT !.onConflict = TRUE, !.name = name, !.do = <<do>>]
    /\ ret' = [NoRet EXCEPT !.op = "OnConflict", !.on = stmt.dml]
    /\ UNCHANGED <<txs, handles, db, funcs, receiver, log, calls, stack, panicking>>
    /\ out' = NoOut
    /\ UNCHANGED <<dialect, withClauses, expr>>

\* InsertStmt.Returning / UpdateStmt.Returning; the embedded statement's
\* Returning sets ReturnColumn
Returning(column) ==
    /\ stmt.kind \in {"Insert", "Update"}
    /\ stmt' = IF isPostgres(dialect) THEN [stmt EXCEPT !.ReturnColumn = column]
               ELSE stmt
    /\ ret' = [NoRet EXCEPT !.op = "Returning", !.on = stmt.dml]
    /\ out' = [NoOut EXCEPT !.op = "Returning", !.args = column]
    /\ UNCHANGED <<txs, handles, db, funcs, receiver, log, calls, stack, panicking>>
    /\ UNCHANGED <<dialect, withClauses, expr>>

\* b.Build(d, dbr.NewBuffer()) on the statement under construction
StmtBuild ==
    /\ stmt.kind # "none"
    /\ LET r == StmtBuildResult(stmt, dialect, NewBuffer) IN
       out' = [NoOut EXCEPT !.op = "Build", !.sql = r.buf.sql,
                            !.value = r.buf.value, !.err = r.err]
    /\ ret' = [NoRet EXCEPT !.op = "Build", !.on = stmt.dml]
    /\ UNCHANGED <<txs, handles, db, funcs, receiver, log, calls, stack, panicking>>
    /\ UNCHANGED <<dialect, withClauses, stmt, expr>>

\* Exec of an InsertStmt or UpdateStmt, Load of a SelectStmt; ok is the
\* driver's answer
Run(ok) ==
    /\ stmt.kind # "none"
    /\ out' = IF stmt.kind = "Insert" THEN InsertStmtExec(stmt, ok)
              ELSE IF stmt.kind = "Update" THEN UpdateStmtExec(stmt, ok)
              ELSE SelectStmtLoad(stmt, ok)
    /\ ret' = [NoRet EXCEPT !.op = IF stmt.kind = "Select" THEN "Load" ELSE "Exec",
                            !.on = stmt.dml, !.err = out'.err]
    /\ UNCHANGED <<txs, handles, db, funcs, receiver, log, calls, stack, panicking>>
    /\ UNCHANGED <<dialect, withClauses, stmt, expr>>

\* The statement-building layer: a session with a dialect of dbr, wrapped by
\* newWrapper, and an AfterCommitEventReceiver
BaseDialects == {PostgreSQL, MySQL, SQLite3}

InitStmt ==
    /\ txs = <<>>
    /\ handles = {}
    /\ db = {}
    /\ funcs = <<>>
    /\ receiver = ACReceiver
    /\ log = <<>>
    /\ ret = NoRet
    /\ calls = <<>>
    /\ stack = <<>>
    /\ panicking = FALSE
    /\ dialect \in {NewWrapperDialect(d) : d \in BaseDialects}
    /\ withClauses = <<>>
    /\ stmt = NoStmt
    /\ out = NoOut
    /\ expr = NoExpr

\* the statements of dbr the decorators are built around, and a sub-query
BaseSelect == Expr(<<"SELECT ", "?">>, <<"s">>)

BaseUpdate == Expr(<<"UPDATE ", "?">>, <<"u">>)

SubQuery == Expr(<<"VALUES (", "?", ")">>, <<"q">>)

\* WITH clauses declared and consumed through the root Handle and the
\* Transaction Handles of one unit of work
NextWith ==
    \/ \E target \in Targets : (target = Root => txs = <<>>) /\ Begin(target, TRUE)
    \/ \E target \in Targets : With(target, SubQuery)
    \/ \E target \in Targets : Select(target, BaseSelect)
    \/ \E target \in Targets : Update(target, BaseUpdate)

SpecWith == InitStmt /\ [][NextWith]_vars

\* sub-queries and base statements, rendering or failing
SubSelect == Expr(<<"SELECT ", "?">>, <<"q2">>)

FailingSub == FailingBuilder(<<"SELECT ">>)

SubBuilders == {SubQuery, Parens(SubSelect), Parens(FailingSub)}

FailingBase == FailingBuilder(<<>>)

\* WITH-prefixed statements built through the root Handle, rendered and run
NextSelect ==
    \/ \E b \in SubBuilders : With(Root, b)
    \/ \E base \in {BaseSelect, FailingBase} : Select(Root, base)
    \/ \E base \in {BaseUpdate, FailingBase} : Update(Root, base)
    \/ StmtBuild
    \/ \E ok \in BOOLEAN : Run(ok)

SpecSelect == InitStmt /\ [][NextSelect]_vars

BaseInsert == Expr(<<"INSERT ", "?">>, <<"i">>)

ConflictTargets ==
    {StringName(""), NilName, ListName(<<>>), StringName("c"), ListName(<<"a", "b">>)}

DoNothing == Expr(<<"nothing">>, <<>>)

DoUpdateSet == Expr(<<"UPDATE SET ", "?">>, <<"d">>)

ConflictActions == {DoNothing, DoUpdateSet, FailingBuilder(<<"UPDATE ">>)}

ReturnColumns == {<<>>, <<"id">>, <<"id", "s">>}

\* INSERT with ON CONFLICT and RETURNING, UPDATE with RETURNING, built through
\* the root Handle, rendered and run
NextInsert ==
    \/ \E base \in {BaseInsert, FailingBase} : InsertInto(Root, base)
    \/ Update(Root, BaseUpdate)
    \/ \E name \in ConflictTargets, do \in ConflictActions : OnConflict(name, do)
    \/ \E column \in ReturnColumns : Returning(column)
    \/ StmtBuild
    \/ \E ok \in BOOLEAN : Run(ok)

SpecInsert == InitStmt /\ [][NextInsert]_vars

\* SELECT and UPDATE statements, with and without WITH clauses, built and run
\* through the root Handle and the Transaction Handles of one unit of work
NextExec ==
    \/ \E target \in Targets : (target = Root => txs = <<>>) /\ Begin(target, TRUE)
    \/ \E target \in Targets : With(target, SubQuery)
    \/ \E target \in Targets : Select(target, BaseSelect)
    \/ \E target \in Targets : Update(target, BaseUpdate)
    \/ \E ok \in BOOLEAN : Run(ok)

SpecExec == InitStmt /\ [][NextExec]_vars

----------------------------------------------------------------------------
(* SelectBySql, InsertBySql, UpdateBySql: statements of dbr built from raw   *)
(* SQL on the session or on the *dbr.Tx of the handle                        *)

\* SelectBySql(sql, value...): the root Handle and outerTransaction pass
\* value on, innerTransaction calls t.Tx.SelectBySql(sql)
SelectBySqlStmt(target, sql, value) ==
    NewStmt("SelectBySql",
            Expr(sql, IF target.kind = "inner" THEN <<>> ELSE value), <<>>, target)

\* InsertBySql(sql, value...)
InsertBySqlStmt(target, sql, value) ==
    NewStmt("InsertBySql", Expr(sql, value), <<>>, target)

\* UpdateBySql(sql)
UpdateBySqlStmt(target, sql) ==
    NewStmt("UpdateBySql", Expr(sql, <<>>), <<>>, target)

\* the statement op(sql, value...) returns on target
BySqlStmt(target, op, sql, value) ==
    IF op = "SelectBySql" THEN SelectBySqlStmt(target, sql, value)
    ELSE IF op = "InsertBySql" THEN InsertBySqlStmt(target, sql, value)
    ELSE UpdateBySqlStmt(target, sql)

\* target.SelectBySql / InsertBySql / UpdateBySql; out keeps the arguments
BySql(target, op, sql, value) ==
    /\ target \in {Root} \cup handles
    /\ op = "UpdateBySql" => value = <<>>
    /\ stmt' = BySqlStmt(target, op, sql, value)
    /\ out' = [NoOut EXCEPT !.op = op, !.sql = sql, !.args = value]
    /\ ret' = [NoRet EXCEPT !.op = op, !.on = target]
    /\ UNCHANGED <<txs, handles, db, funcs, receiver, log, calls, stack, panicking>>
    /\ UNCHANGED <<dialect, withClauses, expr>>

BySqlOps == {"SelectBySql", "InsertBySql", "UpdateBySql"}

\* the statement-building operations called on the root Handle and on the
\* Outer and Inner handles of one unit of work
NextBySql ==
    \/ \E target \in Targets : (target = Root => txs = <<>>) /\ Begin(target, TRUE)
    \/ \E target \in Targets, op \in BySqlOps, sql \in {<<"SELECT 1">>, <<"x = ", "?">>},
          value \in {<<>>, <<"1">>, <<"2">>} :
          BySql(target, op, sql, value)
    \/ \E target \in Targets : Select(target, BaseSelect)
    \/ \E target \in Targets : Update(target, BaseUpdate)
    \/ \E target \in Targets : InsertInto(target, BaseInsert)
    \/ StmtBuild

SpecBySql == InitStmt /\ [][NextBySql]_vars

----------------------------------------------------------------------------
(* Fragment builders *)

\* strings.Repeat
RECURSIVE Repeat(_, _)
Repeat(str, n) == IF n = 0 THEN <<>> ELSE str \o Repeat(str, n - 1)

\* Greatest: "?," once per value, the last comma cut off
Greatest_untrimmed(d, value) ==
    Expr(<<IF isPostgres(d) THEN "greatest(" ELSE "max(">>
         \o Repeat(<<"?", ",">>, Len(value)) \o <<")">>, value)

Greatest(d, value) ==
    LET placeholders == Repeat(<<"?", ",">>, Len(value))
        cut == SubSeq(placeholders, 1, Len(placeholders) - 1)
    IN IF isPostgres(d) THEN Expr(<<"greatest(">> \o cut \o <<")">>, value)
       ELSE Expr(<<"max(">> \o cut \o <<")">>, value)

GreatestValues == {"1", "2", "3"}

\* Greatest(dialect, value...) and the Build of what it returns; with no value
\* the slice expression placeholders[0:-1] panics
GreatestCall(value) ==
    /\ ~panicking
    /\ panicking' = (Len(value) = 0)
    /\ out' = IF Len(value) = 0
              THEN [NoOut EXCEPT !.op = "Greatest", !.args = value, !.err = "panic"]
              ELSE LET r == Build(Greatest(dialect, value), dialect, NewBuffer)
                   IN [NoOut EXCEPT !.op = "Greatest", !.args = value, !.sql = r.buf.sql,
                                    !.value = r.buf.value, !.err = r.err]
    /\ ret' = [NoRet EXCEPT !.op = "Greatest", !.err = out'.err]
    /\ UNCHANGED <<txs, handles, db, funcs, receiver, log, calls, stack>>
    /\ UNCHANGED <<dialect, withClauses, stmt, expr>>

\* the fragment builders take any dialect: one of dbr, or the session's
\* wrapped one
InitFrag ==
    /\ txs = <<>>
    /\ handles = {}
    /\ db = {}
    /\ funcs = <<>>
    /\ receiver = ACReceiver
    /\ log = <<>>
    /\ ret = NoRet
    /\ calls = <<>>
    /\ stack = <<>>
    /\ panicking = FALSE
    /\ dialect \in BaseDialects \cup {NewWrapperDialect(d) : d \in BaseDialects}
    /\ withClauses = <<>>
    /\ stmt = NoStmt
    /\ out = NoOut
    /\ expr = NoExpr

NextFrag ==
    \E n \in 0..MaxValues : \E value \in [1..n -> GreatestValues] : GreatestCall(value)

SpecFrag == InitFrag /\ [][NextFrag]_vars

----------------------------------------------------------------------------
(* ValuesExpr *)

MaxTuples == 3      \* tuples accumulated by one ValuesExpr
MaxTupleLen == 2    \* values in one tuple

\* &ValuesExpr{values}
ValuesExpr(values) == [kind |-> "Values", values |-> values]

\* the placeholders and values of one tuple, from the j-th value on
RECURSIVE TupleFrom(_, _, _)
TupleFrom(values, j, buf) ==
    IF j > Len(values) THEN buf
    ELSE LET sep == IF j > 1 THEN WriteString(buf, <<",">>) ELSE buf
         IN TupleFrom(values, j + 1,
                      WriteValue(WriteString(sep, <<"?">>), <<values[j]>>))

\* ValuesExpr.Build: the loop over e.values from the i-th tuple on; the comma
\* is written when the index of the tuple is above 0
RECURSIVE ValuesFrom(_, _, _)
ValuesFrom(values, i, buf) ==
    IF i > Len(values) THEN buf
    ELSE IF Len(values[i]) = 0 THEN ValuesFrom(values, i + 1, buf)
    ELSE LET sep == IF i > 1 THEN WriteString(buf, <<",">>) ELSE buf
         IN ValuesFrom(values, i + 1,
                       WriteString(TupleFrom(values[i], 1, WriteString(sep, <<"(">>)),
                                   <<")">>))

ValuesExprBuild(e, d, buf) ==
    BuildOk(ValuesFrom(e.values, 1, WriteString(buf, <<"VALUES ">>)))

\* Values(v...): a new ValuesExpr holding the tuple v
Values(v) ==
    /\ expr' = ValuesExpr(<<v>>)
    /\ out' = NoOut
    /\ ret' = [NoRet EXCEPT !.op = "Values"]
    /\ UNCHANGED <<txs, handles, db, funcs, receiver, log, calls, stack, panicking>>
    /\ UNCHANGED <<dialect, withClauses, stmt>>

\* e.Values(v...): on a nil e the same as Values(v...), else v is appended
ValuesExprValues(v) ==
    /\ expr.kind \in {"none", "Values"}
    /\ expr.kind = "Values" => Len(expr.values) < MaxTuples
    /\ expr' = IF expr.kind = "none" THEN ValuesExpr(<<v>>)
               ELSE ValuesExpr(Append(expr.values, v))
    /\ out' = NoOut
    /\ ret' = [NoRet EXCEPT !.op = "Values"]
    /\ UNCHANGED <<txs, handles, db, funcs, receiver, log, calls, stack, panicking>>
    /\ UNCHANGED <<dialect, withClauses, stmt>>

\* e.Build(d, dbr.NewBuffer())
ValuesBuild ==
    /\ expr.kind = "Values"
    /\ LET r == ValuesExprBuild(expr, dialect, NewBuffer) IN
       out' = [NoOut EXCEPT !.op = "ValuesBuild", !.sql = r.buf.sql,
                            !.value = r.buf.value, !.err = r.err]
    /\ ret' = [NoRet EXCEPT !.op = "Build", !.err = out'.err]
    /\ UNCHANGED <<txs, handles, db, funcs, receiver, log, calls, stack, panicking>>
    /\ UNCHANGED <<dialect, withClauses, stmt, expr>>

\* the tuples a call may pass, the empty one included
Tuples == UNION {[1..n -> {"a", "b"}] : n \in 0..MaxTupleLen}

NextValues ==
    \/ \E v \in Tuples : Values(v)
    \/ \E v \in Tuples : ValuesExprValues(v)
    \/ ValuesBuild

SpecValues == InitFrag /\ [][NextValues]_vars

----------------------------------------------------------------------------
(* TranslateString.  A Go string is a sequence of bytes; a character c of   *)
(* w bytes is the record [c, w], and a string the sequence of its           *)
(* characters.                                                              *)

MaxChars == 2       \* characters in the from and to strings of TranslateString

Char(c, w) == [c |-> c, w |-> w]

\* len(str): the number of bytes
RECURSIVE ByteLen(_)
ByteLen(str) == IF str = <<>> THEN 0 ELSE Head(str).w + ByteLen(Tail(str))

\* the byte offset at which the k-th character of str starts, the index that
\* range str yields with it
ByteOffset(str, k) == ByteLen(SubSeq(str, 1, k - 1))

\* str[n] printed with %c: the character itself when the byte at offset n is a
\* whole character, else the code point of one byte of a longer character
RECURSIVE ByteAt(_, _)
ByteAt(str, n) ==
    IF n < Head(str).w
    THEN IF Head(str).w = 1 THEN Head(str).c ELSE "byte of " \o Head(str).c
    ELSE ByteAt(Tail(str), n - Head(str).w)

\* the characters of str as text
Chars(str) == [k \in 1..Len(str) |-> str[k].c]

\* the loop of TranslateString from the k-th character of regex on: the byte
\* offset i of the character indexes replace[i/2]
RECURSIVE ReplaceFrom(_, _, _, _)
ReplaceFrom(final, regex, replace, k) ==
    IF k > Len(regex) THEN [str |-> final, err |-> "nil"]
    ELSE IF ByteOffset(regex, k) \div 2 >= ByteLen(replace)
    THEN [str |-> final, err |-> "panic"]
    ELSE ReplaceFrom(<<"replace(">> \o final
                     \o <<", '", regex[k].c, "', '",
                          ByteAt(replace, ByteOffset(regex, k) \div 2), "')">>,
                     regex, replace, k + 1)

TranslateString(d, text, regex, replace) ==
    IF isPostgres(d)
    THEN [str |-> <<"translate(", text, ", '">> \o Chars(regex) \o <<"', '">>
                  \o Chars(replace) \o <<"')">>,
          err |-> "nil"]
    ELSE ReplaceFrom(<<text>>, regex, replace, 1)

\* TranslateString(dialect, "col", regex, replace); an index out of range
\* panics
TranslateStringCall(regex, replace) ==
    /\ ~panicking
    /\ LET r == TranslateString(dialect, "col", regex, replace) IN
       /\ out' = [NoOut EXCEPT !.op = "TranslateString", !.args = <<regex, replace>>,
                               !.sql = r.str, !.err = r.err]
       /\ panicking' = (r.err = "panic")
    /\ ret' = [NoRet EXCEPT !.op = "TranslateString", !.err = out'.err]
    /\ UNCHANGED <<txs, handles, db, funcs, receiver, log, calls, stack>>
    /\ UNCHANGED <<dialect, withClauses, stmt, expr>>

\* strings of one-byte characters and a two-byte one
TranslateStrings ==
    UNION {[1..n -> {Char("a", 1), Char("e", 1), Char("a-acute", 2)}] : n \in 0..MaxChars}

NextTranslate ==
    \E regex \in TranslateStrings, replace \in TranslateStrings :
        TranslateStringCall(regex, replace)

SpecTranslate == InitFrag /\ [][NextTranslate]_vars

----------------------------------------------------------------------------
(* DoUpdateBuilder.  Value is a Go map, here a function from the columns    *)
(* that were set to their values; built is history, the first rendering     *)
(* since the builder was last changed.                                      *)

MaxWhere == 2       \* conditions given to one DoUpdateBuilder

\* DoUpdate()
DoUpdateBuilder(Value, WhereCond) ==
    [kind |-> "DoUpdate", Value |-> Value, WhereCond |-> WhereCond, built |-> <<>>]

\* dbr.And(cond...).Build: every condition in parentheses, " AND " between
RECURSIVE AndFrom(_, _, _, _)
AndFrom(cond, i, d, buf) ==
    IF i > Len(cond) THEN BuildOk(buf)
    ELSE LET sep == IF i > 1 THEN WriteString(buf, <<" AND ">>) ELSE buf
             r == Build(cond[i], d, WriteString(sep, <<"(">>))
         IN IF r.err # "nil" THEN r
            ELSE AndFrom(cond, i + 1, d, WriteString(r.buf, <<")">>))

\* the loop over b.Value taken in the order cols, from the i-th column on
RECURSIVE SetFrom(_, _, _, _, _)
SetFrom(Value, cols, i, d, buf) ==
    IF i > Len(cols) THEN buf
    ELSE LET sep == IF i > 1 THEN WriteString(buf, <<", ">>) ELSE buf
         IN SetFrom(Value, cols, i + 1, d,
                    WriteValue(WriteString(sep, QuoteIdent(d, cols[i]) \o <<" = ", "?">>),
                               <<Value[cols[i]]>>))

\* DoUpdateBuilder.Build, the range over the map yielding the columns in the
\* order cols
DoUpdateBuilderBuild(b, cols, d, buf) ==
    LET set == SetFrom(b.Value, cols, 1, d, WriteString(buf, <<"UPDATE ", " SET ">>))
    IN IF Len(b.WhereCond) = 0 THEN BuildOk(set)
       ELSE AndFrom(b.WhereCond, 1, d, WriteString(set, <<" WHERE ">>))

\* the orders in which a range over a map with the keys S may yield them: Go
\* leaves the iteration order of a map unspecified
Orders(S) ==
    {o \in [1..Cardinality(S) -> S] : \A i, j \in DOMAIN o : i # j => o[i] # o[j]}

\* DoUpdate()
DoUpdate ==
    /\ expr' = DoUpdateBuilder(<<>>, <<>>)
    /\ out' = NoOut
    /\ ret' = [NoRet EXCEPT !.op = "DoUpdate"]
    /\ UNCHANGED <<txs, handles, db, funcs, receiver, log, calls, stack, panicking>>
    /\ UNCHANGED <<dialect, withClauses, stmt>>

\* b.Set(column, expr): b.Value[column] = expr
Set(column, v) ==
    /\ expr.kind = "DoUpdate"
    /\ expr' = [expr EXCEPT
                    !.Value = [c \in DOMAIN @ \cup {column} |->
                                  IF c = column THEN v ELSE @[c]],
                    !.built = <<>>]
    /\ out' = NoOut
    /\ ret' = [NoRet EXCEPT !.op = "Set"]
    /\ UNCHANGED <<txs, handles, db, funcs, receiver, log, calls, stack, panicking>>
    /\ UNCHANGED <<dialect, withClauses, stmt>>

\* b.Where(query, value...) with a string, which becomes dbr.Expr(query,
\* value...), or with a builder; cond is the condition appended
Where(cond) ==
    /\ expr.kind = "DoUpdate"
    /\ Len(expr.WhereCond) < MaxWhere
    /\ expr' = [expr EXCEPT !.WhereCond = Append(@, cond), !.built = <<>>]
    /\ out' = NoOut
    /\ ret' = [NoRet EXCEPT !.op = "Where"]
    /\ UNCHANGED <<txs, handles, db, funcs, receiver, log, calls, stack, panicking>>
    /\ UNCHANGED <<dialect, withClauses, stmt>>

\* b.Build(d, dbr.NewBuffer())
DoUpdateBuild ==
    /\ expr.kind = "DoUpdate"
    /\ \E cols \in Orders(DOMAIN expr.Value) :
          LET r == DoUpdateBuilderBuild(expr, cols, dialect, NewBuffer) IN
          /\ out' = [NoOut EXCEPT !.op = "DoUpdateBuild", !.sql = r.buf.sql,
                                  !.value = r.buf.value, !.err = r.err]
          /\ expr' = IF expr.built # <<>> THEN expr
                     ELSE [expr EXCEPT !.built = <<[sql |-> r.buf.sql,
                                                    value |-> r.buf.value]>>]
    /\ ret' = [NoRet EXCEPT !.op = "Build", !.err = out'.err]
    /\ UNCHANGED <<txs, handles, db, funcs, receiver, log, calls, stack, panicking>>
    /\ UNCHANGED <<dialect, withClauses, stmt>>

NextDoUpdate ==
    \/ DoUpdate
    \/ \E column \in {"a", "b"}, v \in {"1", "2"} : Set(column, v)
    \/ \E cond \in {Expr(<<"x = ", "?">>, <<"w">>), FailingBuilder(<<"y">>)} : Where(cond)
    \/ DoUpdateBuild

SpecDoUpdate == InitFrag /\ [][NextDoUpdate]_vars

----------------------------------------------------------------------------
(* UnionStmt *)

MaxMembers == 3     \* builders given to one Union

\* &UnionStmt{builders, dml, false, dialect}
UnionStmt(builders, dml, d) ==
    [kind |-> "Union", builders |-> builders, dml |-> dml, all |-> FALSE,
     dialect |-> d]

\* what LoadContext writes before the i-th builder
UnionSeparator_always(us, i) ==
    <<" UNION ">> \o (IF us.all THEN <<"ALL ">> ELSE <<>>)

UnionSeparator(us, i) ==
    IF i > 1 THEN <<" UNION ">> \o (IF us.all THEN <<"ALL ">> ELSE <<>>)
    ELSE <<>>

\* the loop of LoadContext over us.builders, from the i-th builder on
RECURSIVE UnionFrom(_, _, _)
UnionFrom(us, i, buf) ==
    IF i > Len(us.builders) THEN BuildOk(buf)
    ELSE LET r == Build(us.builders[i], us.dialect,
                        WriteString(buf, UnionSeparator(us, i)))
         IN IF r.err # "nil" THEN r ELSE UnionFrom(us, i + 1, r.buf)

\* UnionStmt.Load / LoadContext: the builders are rendered into one buffer,
\* interpolated, and the string goes to us.dml.SelectBySql(str).LoadContext
UnionStmtLoadContext(us, ok) ==
    LET r == UnionFrom(us, 1, NewBuffer)
        i == Interpolate(r.buf)
    IN IF r.err # "nil" THEN Ran("UnionLoad", r.err, <<>>, "none")
       ELSE IF i.err # "nil" THEN Ran("UnionLoad", i.err, <<>>, "none")
       ELSE Ran("UnionLoad", IF ok THEN "nil" ELSE "DriverErr",
                <<Sent("SelectBySql", us.dml, i.str, <<>>)>>,
                IF ok THEN "rows" ELSE "none")

\* Union(builders...) on the root Handle or a Transaction Handle
Union(target, builders) ==
    /\ target \in {Root} \cup handles
    /\ expr' = UnionStmt(builders, target, dialect)
    /\ out' = NoOut
    /\ ret' = [NoRet EXCEPT !.op = "Union", !.on = target]
    /\ UNCHANGED <<txs, handles, db, funcs, receiver, log, calls, stack, panicking>>
    /\ UNCHANGED <<dialect, withClauses, stmt>>

\* us.all = true: the field has no setter, code of the package assigns it
UnionAll ==
    /\ expr.kind = "Union"
    /\ ~expr.all
    /\ expr' = [expr EXCEPT !.all = TRUE]
    /\ out' = NoOut
    /\ ret' = [NoRet EXCEPT !.op = "UnionAll", !.on = expr.dml]
    /\ UNCHANGED <<txs, handles, db, funcs, receiver, log, calls, stack, panicking>>
    /\ UNCHANGED <<dialect, withClauses, stmt>>

\* us.Load(value); ok is the driver's answer
UnionLoad(ok) ==
    /\ expr.kind = "Union"
    /\ out' = UnionStmtLoadContext(expr, ok)
    /\ ret' = [NoRet EXCEPT !.op = "Load", !.on = expr.dml, !.err = out'.err]
    /\ UNCHANGED <<txs, handles, db, funcs, receiver, log, calls, stack, panicking>>
    /\ UNCHANGED <<dialect, withClauses, stmt, expr>>

\* a statement whose placeholders and values do not agree
Unbound == Expr(<<"SELECT ", "?">>, <<>>)

UnionMembers == UNION {[1..n -> {SubSelect, FailingSub, Unbound}] : n \in 0..MaxMembers}

\* unions built and loaded through the root Handle and the Transaction
\* Handles of one unit of work
NextUnion ==
    \/ \E target \in Targets : (target = Root => txs = <<>>) /\ Begin(target, TRUE)
    \/ \E target \in Targets, builders \in UnionMembers : Union(target, builders)
    \/ UnionAll
    \/ \E ok \in BOOLEAN : UnionLoad(ok)

SpecUnion == InitStmt /\ [][NextUnion]_vars

Next ==
    NextNest \/ NextRun \/ NextCb \/ NextRunCb \/ NextSession \/ NextNested
    \/ NextBySql \/ NextExec \/ NextWith \/ NextSelect \/ NextInsert
    \/ NextFrag \/ NextValues \/ NextTranslate \/ NextDoUpdate \/ NextUnion

Spec == Init /\ [][Next]_vars

----------------------------------------------------------------------------
(* Properties *)

Call(k) == calls[k]

Finished(c) == c.status \in {"returned", "panicked"}

\* the ids of the writes executed through the handles that derive from handle t
WritesVia(t) ==
    {x \in UNION {txs[i].writes : i \in 1..Len(txs)} : x.origin = t.origin}

Closing == {"Commit", "Rollback", "RollbackUnlessCommitted"}

\* C1: in a chain of nested Begin calls of any depth from the root Handle (an
\* Inner handle stands for every depth from 2 on),
\* one real transaction is opened: every handle of the chain holds the
\* transaction of the Outer handle it derives from, there are as many real
\* transactions as successful Begin calls on the root Handle, and Begin on an
\* Outer or Inner handle returns no error.
C1_OneRealTransaction ==
    /\ \A t \in handles : t.tx = t.origin /\ t.tx \in 1..Len(txs)
    /\ Len(txs) = Cardinality({t \in handles : t.kind = "outer"})
    /\ (ret.op = "Begin" /\ ret.on # Root) => ret.err = "nil"

C1_Witness ==
    /\ Len(txs) = 1
    /\ \E t \in handles : t.kind = "inner"
    /\ ret.op = "Begin" /\ ret.on.kind = "inner"

\* C2: Commit, Rollback and RollbackUnlessCommitted on an Inner handle return
\* no error and leave every real transaction (state and writes) and the
\* committed rows as they were, whatever the state of the transaction.
C2_InnerCloseIsNoOp ==
    [][(ret'.op \in Closing /\ ret'.on.kind = "inner")
         => (ret'.err = "nil" /\ txs' = txs /\ db' = db)]_vars

C2_Witness ==
    /\ ret.op = "Commit" /\ ret.on.kind = "inner"
    /\ txs[ret.on.tx].state = "open"
    /\ txs[ret.on.tx].writes # {}

\* C3: RunInTransaction on the root Handle, f returns nil and the commit
\* succeeds (the transaction is still open when f returns and the driver
\* accepts COMMIT): RunInTransaction returns nil, the transaction is committed
\* and every write executed through the handle passed to f or a handle nested
\* in it is among the committed rows.
C3_RunCommits ==
    \A k \in 1..Len(calls) :
        (/\ Call(k).target = Root /\ Call(k).status = "returned"
         /\ Call(k).fRet = "nil" /\ Call(k).txAtExit = "open" /\ Call(k).ok)
        => /\ Call(k).result = "nil"
           /\ txs[Call(k).tx].state = "committed"
           /\ WritesVia(Call(k).h) \subseteq db

C3_Witness ==
    \E k \in 1..Len(calls) :
        /\ Call(k).target = Root /\ Call(k).status = "returned"
        /\ Call(k).fRet = "nil" /\ Call(k).txAtExit = "open" /\ Call(k).ok
        /\ \E w1, w2 \in txs[Call(k).tx].writes : w1.kind = "outer" /\ w2.kind = "inner"
        /\ Cardinality(db) = 2

C5_CommitErrorReturned ==
    \A k \in 1..Len(calls) :
        (/\ Call(k).status = "returned" /\ Call(k).fRet = "nil"
         /\ Call(k).commit \notin {"nil", "notIssued"})
        => Call(k).result = Call(k).commit

\* C6: once RunInTransaction called on the root Handle has been left (f
\* returned nil or an error, f panicked, the final Commit failed), the real
\* transaction it opened is not open.
C6_NoTransactionLeftOpen ==
    \A k \in 1..Len(calls) :
        (Call(k).target = Root /\ Call(k).beginErr = "nil" /\ Finished(Call(k)))
        => txs[Call(k).tx].state # "open"

C6_Witness ==
    \E k \in 1..Len(calls) :
        /\ Call(k).target = Root /\ Call(k).status = "panicked"
        /\ Call(k).txAtExit = "open"
        /\ txs[Call(k).tx].state = "rolledback"

\* C7: when Begin fails in RunInTransaction, the call returns the Begin error
\* at once: f is not invoked, no Commit is issued, no callback runs and no
\* transaction or row changes.
C7_BeginFailure ==
    [][(Len(calls') > Len(calls) /\ calls'[Len(calls')].beginErr # "nil")
         => /\ calls'[Len(calls')].status = "returned"
            /\ calls'[Len(calls')].result = calls'[Len(calls')].beginErr
            /\ ~calls'[Len(calls')].fInvoked
            /\ calls'[Len(calls')].commit = "notIssued"
            /\ stack' = stack /\ log' = log /\ txs' = txs /\ db' = db
            /\ handles' = handles]_vars

C7_Witness ==
    \E k \in 1..Len(calls) :
        /\ Call(k).beginErr = "BeginErr" /\ Call(k).result = "BeginErr"
        /\ funcs # <<>> /\ log = <<>>

\* C8: a successful Commit on the Outer handle runs, after the physical
\* commit, every callback registered so far, in registration order, whether
\* it was registered through the root Handle or through the Outer handle.
C8_CallbacksInOrder ==
    [][\A i \in 1..Len(txs) :
          (txs[i].state = "open" /\ txs'[i].state = "committed")
          => log' = Append(log, [ev |-> "commit", f |-> 0, tx |-> i])
                    \o [k \in 1..Len(funcs) |-> [ev |-> "cb", f |-> funcs[k].f, tx |-> i]]]_vars

C8_Witness ==
    /\ Len(funcs) = 2 /\ funcs[1].via = "root" /\ funcs[2].via = "outer"
    /\ ret.op = "Commit" /\ ret.on.kind = "outer" /\ ret.err = "nil"
    /\ log = <<[ev |-> "commit", f |-> 0, tx |-> 1], [ev |-> "cb", f |-> 1, tx |-> 1],
               [ev |-> "cb", f |-> 2, tx |-> 1]>>

\* C9: callbacks run in no step but one in which a real transaction is
\* committed: not in Rollback, RollbackUnlessCommitted, a failed Commit, nor
\* when RunInTransaction is left after f returned a failure.
C9_NoCallbackWithoutCommit ==
    [][(\A i \in 1..Len(txs) : ~(txs[i].state = "open" /\ txs'[i].state = "committed"))
         => log' = log]_vars

C9_Witness ==
    \E k \in 1..Len(calls) :
        /\ Call(k).target = Root /\ Call(k).status = "returned"
        /\ Call(k).fRet \in FErrs /\ Call(k).txAtExit = "open"
        /\ \E j \in 1..Len(funcs) : funcs[j].via = "outer"
        /\ txs[Call(k).tx].state = "rolledback"
        /\ log = <<>>

\* the session's receiver can take a post-commit callback
SupportsCallbacks(r) ==
    \/ r.kind = "acr"
    \/ r.kind = "multi" /\ \E k \in 1..Len(r.members) : r.members[k] = "acr"

\* C10: RunAfterCommit on the root Handle, the Outer handle or an Inner handle
\* returns no error and appends the callback to the registry when the receiver
\* supports callbacks.
C10_RunAfterCommitOnAnyHandle ==
    (ret.op = "RunAfterCommit" /\ SupportsCallbacks(receiver))
    => /\ ret.err = "nil"
       /\ funcs # <<>> /\ funcs[Len(funcs)].via = ret.on.kind

\* C11: when the session's receiver cannot take post-commit callbacks (it has
\* no Add method, or it is a MultipleEventReceiver none of whose members has
\* one), RunAfterCommit on the root Handle or the Outer handle returns the
\* error, does not panic and leaves the registry as it was.
C11_RegistrationError ==
    (ret.op = "RunAfterCommit" /\ ret.on.w /\ ~SupportsCallbacks(receiver))
    => /\ ret.err = "NoAfterCommitEventReceiver"
       /\ ~panicking
       /\ funcs = <<>>

\* h is what With returns when called on target: the root Handle itself, or
\* the copy of the Transaction Handle with one more clause
ReturnedByWith(target, h) ==
    IF target = Root THEN h = Root
    ELSE /\ h # Root /\ h.withClauses # <<>>
         /\ WithHandle(target, h.withClauses[Len(h.withClauses)]) = h

\* C12: on the root Handle and on a Transaction Handle alike, a Select or
\* Update built through the handle that With has just returned carries the
\* pending clauses of that handle in declaration order, and a Select or Update
\* built through the handle that built the previous statement, with no With
\* in between, carries no WITH clause.
C12_WithConsumedOnce ==
    [][(ret'.op \in {"Select", "Update"})
         => /\ (ret.op = "With" /\ ReturnedByWith(ret.on, ret'.on))
                 => /\ stmt'.withClauses = Pending(ret'.on)
                    /\ stmt'.withClauses # <<>>
            /\ (ret.op \in {"Select", "Update"} /\ ret.on = ret'.on)
                 => stmt'.withClauses = <<>>]_vars

\* C13: RollbackUnlessCommitted on the Outer handle raises no failure; it
\* rolls back a transaction that is open, leaves a transaction that is
\* committed, rolled back or failed to commit, the committed rows and the log
\* as they are, and a second call right after it changes nothing.
C13_RollbackUnlessCommittedIdempotent ==
    [][(ret'.op = "RollbackUnlessCommitted" /\ ret'.on.kind = "outer")
         => LET i == ret'.on.tx
                after == [txs |-> txs', db |-> db', log |-> log']
            IN /\ ret'.err = "nil" /\ ~panicking'
               /\ db' = db
               /\ txs[i].state = "open" => txs' = [txs EXCEPT ![i].state = "rolledback"]
               /\ txs[i].state # "open" => (txs' = txs /\ log' = log)
               /\ RollbackUnlessCommitted(after, ret'.on) = after]_vars

C13_Witness ==
    /\ ret.op = "RollbackUnlessCommitted" /\ ret.on.kind = "outer"
    /\ txs[ret.on.tx].state = "committed"
    /\ txs[ret.on.tx].writes # {} /\ txs[ret.on.tx].writes \subseteq db

\* C14: whatever Commit, Rollback and RollbackUnlessCommitted calls are made
\* on the Outer and Inner handles of a unit of work, its real transaction is
\* closed once: a transaction that is committed, rolled back or failed to
\* commit keeps that state, no transaction is physically committed twice, and
\* when RunInTransaction on the root Handle is left its transaction is closed.
C14_ClosedExactlyOnce ==
    [][/\ \A i \in 1..Len(txs) :
             txs[i].state # "open" => txs'[i].state = txs[i].state
       /\ \A i \in 1..Len(txs') :
             Cardinality({k \in 1..Len(log') :
                            log'[k].ev = "commit" /\ log'[k].tx = i}) <= 1
       /\ \A k \in 1..Len(calls') :
             (calls'[k].target = Root /\ calls'[k].beginErr = "nil"
              /\ Finished(calls'[k]))
             => txs'[calls'[k].tx].state \in {"committed", "rolledback", "commitfailed"}]_vars

C14_Witness ==
    \E k \in 1..Len(calls) :
        /\ Call(k).target = Root /\ Call(k).status = "returned"
        /\ Call(k).txAtExit = "committed" /\ Call(k).fRet = "nil"
        /\ txs[Call(k).tx].state = "committed"
        /\ \E w1 \in txs[Call(k).tx].writes : w1.kind = "inner"

\* a Postgres-family dialect: PostgreSQL itself, or the adapter around it
PostgresFamily(d) == d \in {PostgreSQL, DbrxDialect(PostgreSQL)}

\* the WITH clauses from the i-th on, each sub-query rendered on its own
RECURSIVE WithText(_, _, _)
WithText(ws, d, i) ==
    IF i > Len(ws) THEN <<>>
    ELSE (IF i > 1 THEN <<", ">> ELSE <<>>)
         \o <<ws[i].name, " AS (">> \o Build(ws[i].builder, d, NewBuffer).buf.sql
         \o <<") ">> \o WithText(ws, d, i + 1)

RECURSIVE WithValues(_, _, _)
WithValues(ws, d, i) ==
    IF i > Len(ws) THEN <<>>
    ELSE Build(ws[i].builder, d, NewBuffer).buf.value \o WithValues(ws, d, i + 1)

\* C15: a Select or Update that renders without error renders as "WITH "
\* followed by "name AS (sub-query) " for each clause in declaration order,
\* separated by ", ", and then the wrapped statement's own SQL; with no clause
\* it renders the wrapped statement's SQL alone; the values are those of the
\* clauses in order, followed by the statement's own.
C15_WithRendering ==
    (out.op = "Build" /\ stmt.kind \in {"Select", "Update"} /\ out.err = "nil")
    => LET own == BaseBuild(stmt, dialect, NewBuffer).buf
           ws == stmt.withClauses
       IN /\ out.sql = (IF ws = <<>> THEN <<>>
                        ELSE <<"WITH ">> \o WithText(ws, dialect, 1)) \o own.sql
          /\ out.value = WithValues(ws, dialect, 1) \o own.value

C15_Witness ==
    /\ out.op = "Build" /\ stmt.kind = "Update" /\ out.err = "nil"
    /\ Len(stmt.withClauses) = 2
    /\ stmt.withClauses[1].builder = Parens(SubSelect)
    /\ stmt.withClauses[2].builder = SubQuery
    /\ out.sql = <<"WITH ", "v1", " AS (", "(", "SELECT ", "?", ")", ") ", ", ",
                   "v2", " AS (", "VALUES (", "?", ")", ") ", "UPDATE ", "?">>
    /\ out.value = <<"q2", "q", "u">>

\* the Build of b fails
RECURSIVE Fails(_)
Fails(b) == b.kind = "fail" \/ (b.kind = "parens" /\ Fails(b.inner[1]))

\* the call op renders the decorator b
RenderedBy(op, b) ==
    \/ op = "Build"
    \/ op \in {"Exec", "Load"} /\ b.kind \in {"Select", "Update"} /\ b.withClauses # <<>>
    \/ op = "Exec" /\ b.kind = "Insert" /\ b.onConflict
       /\ ~(PostgresFamily(dialect) /\ Len(b.ReturnColumn) = 1)

SubBuilderFails(b) ==
    \/ b.kind \in {"Select", "Update"}
       /\ \E i \in 1..Len(b.withClauses) : Fails(b.withClauses[i].builder)
    \/ b.kind = "Insert" /\ b.onConflict /\ Fails(b.do[1])

\* C16: when a sub-builder of the decorator (a WITH sub-query, the fragment
\* inside Parens, the ON CONFLICT action) fails while the decorator is
\* rendered, Build returns the error, and so does the Exec or Load that
\* rendered it, which submits nothing to the driver.
C16_BuildErrorPropagates ==
    (RenderedBy(out.op, stmt) /\ ~Fails(stmt.base) /\ SubBuilderFails(stmt))
    => /\ out.err = "BuildErr"
       /\ out.sent = <<>>

\* C17: Returning on an INSERT or UPDATE gives the columns to the embedded
\* statement on a Postgres-family dialect (the session's dialect is wrapped by
\* the adapter) and leaves the statement as it was on any other, without
\* error; on another dialect Exec then submits a statement with no RETURNING
\* and returns the driver's own result.
C17_ReturningGated ==
    [][/\ ret'.op = "Returning"
            => /\ ret'.err = "nil"
               /\ stmt' = IF PostgresFamily(dialect)
                          THEN [stmt EXCEPT !.ReturnColumn = out'.args]
                          ELSE stmt
       /\ (ret'.op = "Exec" /\ out'.err = "nil" /\ ~PostgresFamily(dialect))
            => /\ out'.result = "driver"
               /\ \A k \in 1..Len(out'.sent[1].sql) : out'.sent[1].sql[k] # " RETURNING "]_vars

C17_Witness ==
    /\ ret.op = "Returning" /\ out.args = <<"id">>
    /\ dialect = DbrxDialect(SQLite3)
    /\ stmt.kind = "Insert" /\ stmt.ReturnColumn = <<>>

\* C18: Exec of an INSERT on which OnConflict was called submits a statement
\* that contains the ON CONFLICT clause, rendered to a string and re-submitted
\* through the creating handle, on every dialect and with any number of
\* RETURNING columns; without OnConflict the embedded statement runs itself.
C18_OnConflictSubmitted ==
    (out.op = "Exec" /\ stmt.kind = "Insert" /\ out.sent # <<>>)
    => IF stmt.onConflict
       THEN /\ out.sent[1].by = "InsertBySql" /\ out.sent[1].dml = stmt.dml
            /\ \E k \in 1..Len(out.sent[1].sql) : out.sent[1].sql[k] = " ON CONFLICT"
       ELSE out.sent[1].by = "base"

\* the conflict target names at least one column
NonEmptyTarget(name) ==
    \/ name.type = "string" /\ name.s # ""
    \/ name.type = "strings" /\ name.list # <<>>

\* C19: an INSERT with OnConflict(target, action) renders the base INSERT SQL,
\* " ON CONFLICT", then " (" the quoted columns separated by commas ")" only
\* when the target is non-empty, then " DO " and the rendered action; an empty
\* string, nil and an empty list of names give no parenthesized list.
C19_OnConflictRendering ==
    (/\ out.op = "Build" /\ stmt.kind = "Insert" /\ stmt.onConflict
     /\ ~Fails(stmt.base) /\ ~Fails(stmt.do[1]))
    => LET own == BaseBuild(stmt, dialect, NewBuffer).buf
           action == Build(stmt.do[1], dialect, NewBuffer).buf
       IN /\ out.err = "nil"
          /\ out.sql = own.sql \o <<" ON CONFLICT">>
                       \o (IF NonEmptyTarget(stmt.name)
                           THEN <<" (">> \o QuotedFrom(dialect, Names(stmt.name), 1) \o <<")">>
                           ELSE <<>>)
                       \o <<" DO ">> \o action.sql
          /\ out.value = own.value \o action.value

\* C20: Greatest(d, v1..vN) with N >= 1 renders "greatest(" on a
\* Postgres-family dialect and "max(" on any other, then N placeholders
\* separated by commas, then ")", and binds v1..vN in argument order.
C20_Greatest ==
    (out.op = "Greatest" /\ Len(out.args) >= 1)
    => LET N == Len(out.args) IN
       /\ out.err = "nil"
       /\ out.sql = <<IF PostgresFamily(dialect) THEN "greatest(" ELSE "max(">>
                    \o [k \in 1..(2 * N - 1) |-> IF k % 2 = 1 THEN "?" ELSE ","]
                    \o <<")">>
       /\ out.value = out.args

C20_Witness ==
    /\ out.op = "Greatest" /\ out.args = <<"1", "2">>
    /\ dialect = DbrxDialect(SQLite3)
    /\ out.sql = <<"max(", "?", ",", "?", ")">>
    /\ out.value = <<"1", "2">>

----------------------------------------------------------------------------
\* the tuples of values that hold a value, in order
RECURSIVE NonEmptyTuples(_)
NonEmptyTuples(values) ==
    IF values = <<>> THEN <<>>
    ELSE (IF Len(Head(values)) = 0 THEN <<>> ELSE <<Head(values)>>)
         \o NonEmptyTuples(Tail(values))

\* one parenthesized group of comma-separated placeholders per tuple of
\* groups, one comma between consecutive groups
RECURSIVE GroupsText(_, _)
GroupsText(groups, i) ==
    IF i > Len(groups) THEN <<>>
    ELSE (IF i > 1 THEN <<",">> ELSE <<>>)
         \o <<"(">> \o SubSeq(Repeat(<<",", "?">>, Len(groups[i])), 2, 2 * Len(groups[i]))
         \o <<")">> \o GroupsText(groups, i + 1)

RECURSIVE Flatten(_)
Flatten(groups) ==
    IF groups = <<>> THEN <<>> ELSE Head(groups) \o Flatten(Tail(groups))

\* C21: ValuesExpr.Build renders "VALUES " and one parenthesized placeholder
\* group per non-empty tuple, in insertion order, with exactly one comma between
\* consecutive groups and none before the first or after the last; empty tuples
\* give no text and no parameter, and the parameters are the tuple values in
\* order.
C21_ValuesRendering ==
    out.op = "ValuesBuild" =>
        /\ out.err = "nil"
        /\ out.sql = <<"VALUES ">> \o GroupsText(NonEmptyTuples(expr.values), 1)
        /\ out.value = Flatten(expr.values)

----------------------------------------------------------------------------
\* n nested replace calls over text, the k-th replacing the k-th character of
\* from by the k-th character of to
RECURSIVE NestedReplace(_, _, _, _)
NestedReplace(text, from, to, n) ==
    IF n = 0 THEN <<text>>
    ELSE <<"replace(">> \o NestedReplace(text, from, to, n - 1)
         \o <<", '", from[n].c, "', '", to[n].c, "')">>

\* C22: TranslateString renders translate(text, 'from', 'to') on a
\* Postgres-family dialect; on any other dialect, for from and to of equal
\* length n, it renders n nested replace calls, the k-th (innermost first)
\* replacing the k-th character of from by the k-th character of to.
C22_Translate ==
    out.op = "TranslateString" =>
        LET from == out.args[1]
            to == out.args[2]
        IN IF PostgresFamily(dialect)
           THEN /\ out.err = "nil"
                /\ out.sql = <<"translate(", "col", ", '">> \o Chars(from)
                             \o <<"', '">> \o Chars(to) \o <<"')">>
           ELSE Len(from) = Len(to) =>
                /\ out.err = "nil"
                /\ out.sql = NestedReplace("col", from, to, Len(from))

----------------------------------------------------------------------------
\* C23: rendering the same DoUpdateBuilder (same Set columns and Where
\* conditions) twice yields identical SQL text and an identical bound-parameter
\* sequence: the order of the SET columns does not vary between renders.
C23_DeterministicRendering ==
    (out.op = "DoUpdateBuild" /\ expr.built # <<>>) =>
        /\ out.sql = expr.built[1].sql
        /\ out.value = expr.built[1].value

----------------------------------------------------------------------------
\* the members from the i-th on, each rendered by itself, with sep between
\* consecutive ones: the text and the values
RECURSIVE MembersText(_, _, _, _)
MembersText(builders, d, sep, i) ==
    IF i > Len(builders) THEN <<>>
    ELSE (IF i > 1 THEN sep ELSE <<>>) \o Build(builders[i], d, NewBuffer).buf.sql
         \o MembersText(builders, d, sep, i + 1)

RECURSIVE MembersValues(_, _, _)
MembersValues(builders, d, i) ==
    IF i > Len(builders) THEN <<>>
    ELSE Build(builders[i], d, NewBuffer).buf.value \o MembersValues(builders, d, i + 1)

Rendered(us) ==
    [sql |-> MembersText(us.builders, us.dialect,
                         IF us.all THEN <<" UNION ", "ALL ">> ELSE <<" UNION ">>, 1),
     value |-> MembersValues(us.builders, us.dialect, 1)]

\* C24: UnionStmt.Load renders the members in list order with " UNION "
\* (" UNION ALL " when all is set) between consecutive members, none before the
\* first or after the last, and executes the result once as raw SQL through the
\* handle that created the union; if a member's Build fails, Load returns that
\* error and executes nothing.
C24_UnionLoad ==
    out.op = "UnionLoad" =>
        IF \E i \in DOMAIN expr.builders : Fails(expr.builders[i])
        THEN out.err = "BuildErr" /\ out.sent = <<>>
        ELSE Interpolate(Rendered(expr)).err = "nil" =>
             /\ out.sent = <<Sent("SelectBySql", expr.dml,
                                   Interpolate(Rendered(expr)).str, <<>>)>>
             /\ out.sent[1].tx = expr.dml.tx
             /\ out.err \in {"nil", "DriverErr"}

\* a union of three members with all set, created by a Transaction Handle, was
\* loaded and submitted
C24_Witness ==
    /\ out.op = "UnionLoad"
    /\ Len(expr.builders) = 3
    /\ expr.all
    /\ expr.dml.kind = "inner"
    /\ out.err = "nil"
    /\ Len(out.sent) = 1

----------------------------------------------------------------------------
\* C25: RunInTransaction called on a Transaction Handle, inside the f of an
\* outer RunInTransaction, with an f that returns a failure: the nested call
\* returns that failure unchanged, and once the outermost RunInTransaction has
\* returned, whatever the outer f returned, the row written by the nested f is
\* not among the committed rows.
C25_NestedFailureRollsBack ==
    \A k \in 1..Len(calls) :
        (Call(k).target # Root /\ Call(k).status = "returned" /\ Call(k).fRet \in FErrs)
        => /\ Call(k).result = Call(k).fRet
           /\ stack = <<>> => Call(k).h \notin db

----------------------------------------------------------------------------
\* C26: a root Handle never has more than one open real transaction: a Begin on
\* the root Handle while the outermost transaction it opened is still open does
\* not open a second one.
C26_OneOpenTransaction ==
    Cardinality({i \in 1..Len(txs) : txs[i].state = "open"}) <= 1

----------------------------------------------------------------------------
\* C29: each callback registered with RunAfterCommit is invoked at most once
\* over the lifetime of the root Handle: after the commit that invoked it, or
\* after the transaction in which it was registered was rolled back, no later
\* successful commit on the same Handle invokes it.
C29_CallbackAtMostOnce ==
    \A j, k \in 1..Len(log) :
        (log[j].ev = "cb" /\ log[k].ev = "cb" /\ log[j].f = log[k].f) => j = k

----------------------------------------------------------------------------
\* the Outer handle an Inner handle was derived from
OuterOf(t) == WrapperBegin(t.origin)

\* the statement the call that built stmt would have returned on target
SameCallOn(target) ==
    IF ret.op \in BySqlOps THEN BySqlStmt(target, ret.op, out.sql, out.args)
    ELSE NewStmt(stmt.kind, stmt.base,
                 IF stmt.kind = "Insert" THEN <<>> ELSE Pending(target), target)

\* C27: a statement-building operation called on an Inner handle produces the
\* same statement (same SQL text, same bound parameters), bound to the same real
\* transaction, as the same call with the same arguments on the Outer handle
\* the Inner handle was derived from.
C27_InnerAsOuter ==
    (ret.op \in BySqlOps \cup {"Select", "Update", "InsertInto"}
     /\ ret.on \in handles /\ ret.on.kind = "inner")
    => /\ StmtBuildResult(stmt, dialect, NewBuffer)
            = StmtBuildResult(SameCallOn(OuterOf(ret.on)), dialect, NewBuffer)
       /\ stmt.dml.tx = OuterOf(ret.on).tx

----------------------------------------------------------------------------
\* C28: SelectStmt.Load and UpdateStmt.Exec let the base builder execute when
\* the statement has no WITH clause, and otherwise render the whole statement
\* to a literal string and re-submit it through the handle that created the
\* statement; in both paths a statement built from a Transaction Handle
\* (also one returned by With) executes in that handle's real transaction,
\* never on the session.
C28_RunsInTransaction ==
    (out.op \in {"Load", "Exec"} /\ stmt.kind \in {"Select", "Update"}) =>
        /\ Len(out.sent) = 1
        /\ out.sent[1].dml = stmt.dml
        /\ IF Len(stmt.withClauses) = 0
           THEN /\ out.sent[1].by = "base"
                /\ out.sent[1].sql = stmt.base.query
                /\ out.sent[1].value = stmt.base.value
           ELSE /\ out.sent[1].by = (IF stmt.kind = "Select" THEN "SelectBySql"
                                     ELSE "UpdateBySql")
                /\ out.sent[1].sql
                     = Interpolate(StmtBuildResult(stmt, dialect, NewBuffer).buf).str
                /\ out.sent[1].value = <<>>
        /\ stmt.dml # Root =>
               /\ stmt.dml \in handles
               /\ out.sent[1].tx = stmt.dml.tx
               /\ out.sent[1].tx \in 1..Len(txs)

\* an UPDATE with two WITH clauses, built from a handle that With returned on
\* an Inner handle, was rendered and re-submitted in the transaction
C28_Witness ==
    /\ out.op = "Exec"
    /\ stmt.kind = "Update"
    /\ Len(stmt.withClauses) = 2
    /\ stmt.dml.kind = "inner"
    /\ Len(out.sent) = 1
    /\ out.sent[1].by = "UpdateBySql"
    /\ out.sent[1].tx = 1

----------------------------------------------------------------------------
\* the handle the last call, a Begin on ret.on, returned
ReturnedByBegin ==
    IF ret.on = Root THEN WrapperBegin(Len(txs))
    ELSE IF ret.on.kind = "outer" THEN OuterBegin(ret.on)
    ELSE InnerBegin(ret.on)

\* C30: every handle returned by Begin starts with an empty pending WITH
\* list, whichever handle Begin was called on (the root Handle with pending
\* clauses, an Outer or Inner handle, or a handle returned by With), so that
\* the first statement built from it carries no WITH clause.
C30_BeginStartsEmpty ==
    (ret.op = "Begin" /\ ret.err = "nil") =>
        /\ ReturnedByBegin \in handles
        /\ Pending(ReturnedByBegin) = <<>>

====
